---- MODULE Spec2Model ----
(***************************************************************************)
(* The artifact service of bee-api (src/src/artifacts/artifacts.service.ts) *)
(* as a state machine over the Artifact collection.  One action per        *)
(* service function; each action applies the operator translated from the  *)
(* function's body: the operator's result holds the collection after the   *)
(* call (db), the error thrown or OK (err) and the response (dto).         *)
(***************************************************************************)
EXTENDS Naturals, Sequences, FiniteSets, TLC

(* ------------------------------ bounds --------------------------------- *)

\* Artifacts ever created (ids are 1..MaxArtifacts).
MaxArtifacts == 2

\* Calls of getSecret() in one behaviour.
MaxSecrets == 2

(* --------------------------- values and inputs ------------------------- *)

\* JavaScript's undefined: an omitted request field, an unset column.
Undef == "undefined"

\* ArtifactType.APP, and a type value the service has no variant for.
APP == "app"
UnsupportedType == "unsupported"

\* APIErrorCode, and the marker of a call that returned normally.
OK == "ok"
NOT_FOUND == "not_found"
INVALID_INPUT == "invalid_input"

\* The Thread and Message collections the service reads but never writes.
Threads == {"thread_1", "thread_2"}
Messages == {"msg_1", "msg_2"}

\* message.thread.id of each stored message.
MessageThread(m) == IF m = "msg_1" THEN "thread_1" ELSE "thread_2"

\* Ids a request may name for a thread or a message: the stored ones and one
\* that no row has.
ThreadIds == Threads \cup {"thread_0"}
MessageIds == Messages \cup {"msg_0"}

\* The body's `shared` field: a JSON boolean or omitted.
True == "true"
False == "false"

\* Ids a request may name for an artifact: every id the collection can hold
\* and one it never holds.
ArtifactIds == 1..(MaxArtifacts + 1)

(* ------------------------------ state ---------------------------------- *)

VARIABLES
    artifacts,    \* the Artifact collection: row i is the artifact with id i
    randomCalls   \* outputs crypto.randomBytes has produced so far

vars == <<artifacts, randomCalls>>

(* ----------------------------- persistence ----------------------------- *)

\* The filters an entity query applies unless the call turns them off.
DefaultFilters == {"deleted", "principalAccess"}

\* Whether row `a` passes the filters left on.  Every request of a behaviour
\* runs as the same principal, which can access every artifact it created.
PassesFilters(a, off) ==
    /\ ("deleted" \in DefaultFilters \ off) => a.deletedAt = Undef
    /\ ("principalAccess" \in DefaultFilters \ off) => TRUE

\* Whether row `a` has the values the where-object names.
Matches(a, where) == \A k \in DOMAIN where : a[k] = where[k]

\* em.getRepository(Artifact).findOneOrFail(where, {filters}): the index of
\* the matching row, 0 when there is none (the call then throws NotFound).
findOneOrFail(db, where, off) ==
    LET hits == {i \in DOMAIN db : Matches(db[i], where) /\ PassesFilters(db[i], off)}
    IN  IF hits = {} THEN 0 ELSE CHOOSE i \in hits : TRUE

\* getUpdatedValue(newValue, oldValue): undefined leaves the old value.
getUpdatedValue(newValue, oldValue) ==
    IF newValue = Undef THEN oldValue ELSE newValue

\* new AppArtifact({...}) on a collection of `n` rows: the entity's
\* constructor assigns id, type, createdAt (ms) and leaves deletedAt unset.
AppArtifact(n, input) ==
    [id           |-> n + 1,
     type         |-> APP,
     thread       |-> input.thread,
     message      |-> input.message,
     sourceCode   |-> input.sourceCode,
     metadata     |-> input.metadata,
     accessSecret |-> input.accessSecret,
     name         |-> input.name,
     description  |-> input.description,
     createdAt    |-> (n + 1) * 1500,
     deletedAt    |-> Undef]

\* artifact.delete(): sets the deletion marker and nothing else.
delete(a) == [a EXCEPT !.deletedAt = "Date"]

(* ---------------------------- serialization ---------------------------- *)

\* The response of a call that threw, and the failure result.
NoDto == [object |-> "none"]
Fail(db, code) == [db |-> db, err |-> code, dto |-> NoDto, draws |-> 0]

\* share_url of toSharedDto: a template string, kept as its parts.
ShareUrl(a) ==
    IF a.accessSecret # Undef /\ a.accessSecret # ""
    THEN <<"/v1/artifacts/", a.id, "/shared?secret=", a.accessSecret>>
    ELSE <<>>

toSharedDto(a) ==
    [id          |-> a.id,
     object      |-> "artifact.shared",
     type        |-> a.type,
     metadata    |-> IF a.metadata = Undef THEN "{}" ELSE a.metadata,
     created_at  |-> a.createdAt \div 1000,
     source_code |-> a.sourceCode,
     share_url   |-> ShareUrl(a),
     name        |-> a.name,
     description |-> IF a.description = Undef THEN "" ELSE a.description]

toDto(a) ==
    [id          |-> toSharedDto(a).id,
     object      |-> "artifact",
     type        |-> toSharedDto(a).type,
     metadata    |-> toSharedDto(a).metadata,
     created_at  |-> toSharedDto(a).created_at,
     source_code |-> toSharedDto(a).source_code,
     share_url   |-> toSharedDto(a).share_url,
     name        |-> toSharedDto(a).name,
     description |-> toSharedDto(a).description,
     thread_id   |-> a.thread,
     message_id  |-> a.message]

(* ------------------------------ secrets -------------------------------- *)

\* getSecret(): crypto.randomBytes(24).toString('base64url').  `draw` is the
\* number of this call among all calls of the behaviour; 24 random bytes are
\* modelled symbolically, as a value no earlier call has produced.
getSecret(draw) == "secret_" \o ToString(draw)

\* Secrets a caller of the public link may present: every value getSecret can
\* ever produce (also the ones not issued yet).
Secrets == {getSecret(n) : n \in 1..MaxSecrets}

(* --------------------------- service functions ------------------------- *)

\* Mutant: a secret unless sharing is refused (shared !== false).
CreateSecret_UnlessFalse(shared, draw) ==
    IF shared # False THEN getSecret(draw) ELSE Undef

\* createArtifact, line 99: the secret a new artifact is stored with.
CreateSecret(shared, draw) == IF shared = True THEN getSecret(draw) ELSE Undef

\* Mutant: the message's thread compared with itself.
ThreadMessageMismatch_SelfCompare(message_id, thread_id) ==
    MessageThread(message_id) # MessageThread(message_id)

\* createArtifact, line 89: the thread/message mismatch test.
ThreadMessageMismatch(message_id, thread_id) == MessageThread(message_id) # thread_id

\* Mutant: every type is taken for an app.
IsAppType_Any(type) == type \in {APP, UnsupportedType}

\* createArtifact, line 93: the test for the one supported variant.
IsAppType(type) == type = APP

\* The entity createArtifact builds from a body.
NewArtifact(db, body, draw) ==
    AppArtifact(Len(db),
        [thread       |-> body.thread_id,
         message      |-> body.message_id,
         sourceCode   |-> body.source_code,
         metadata     |-> body.metadata,
         accessSecret |-> CreateSecret(body.shared, draw),
         name         |-> body.name,
         description  |-> body.description])

\* Mutant: the entity is persisted before the thread/message test.
createArtifact_PersistsFirst(db, body, draw) ==
    IF body.thread_id \notin Threads THEN Fail(db, NOT_FOUND)
    ELSE IF body.message_id \notin Messages THEN Fail(db, NOT_FOUND)
    ELSE IF ThreadMessageMismatch(body.message_id, body.thread_id)
    THEN [Fail(db, INVALID_INPUT) EXCEPT !.db = Append(db, NewArtifact(db, body, draw))]
    ELSE IF IsAppType(body.type)
    THEN [db    |-> Append(db, NewArtifact(db, body, draw)),
          err   |-> OK,
          dto   |-> toDto(NewArtifact(db, body, draw)),
          draws |-> IF body.shared = True THEN 1 ELSE 0]
    ELSE Fail(db, INVALID_INPUT)

createArtifact(db, body, draw) ==
    IF body.thread_id \notin Threads THEN Fail(db, NOT_FOUND)
    ELSE IF body.message_id \notin Messages THEN Fail(db, NOT_FOUND)
    ELSE IF ThreadMessageMismatch(body.message_id, body.thread_id)
    THEN Fail(db, INVALID_INPUT)
    ELSE IF IsAppType(body.type)
    THEN [db    |-> Append(db, NewArtifact(db, body, draw)),
          err   |-> OK,
          dto   |-> toDto(NewArtifact(db, body, draw)),
          draws |-> IF body.shared = True THEN 1 ELSE 0]
    ELSE Fail(db, INVALID_INPUT)

readArtifact(db, p) ==
    LET i == findOneOrFail(db, [id |-> p.artifact_id], {})
    IN  IF i = 0 THEN Fail(db, NOT_FOUND)
        ELSE [db |-> db, err |-> OK, dto |-> toDto(db[i]), draws |-> 0]

\* Mutant: the public link path turns every filter off.
SharedReadFiltersOff_All == {"principalAccess", "deleted"}

\* readSharedArtifact, line 127: the filters the public link path turns off.
SharedReadFiltersOff == {"principalAccess"}

\* Mutant: the artifact is looked up by its id alone.
readSharedArtifact_AnySecret(db, p) ==
    LET i == findOneOrFail(db, [id |-> p.artifact_id], SharedReadFiltersOff)
    IN  IF i = 0 THEN Fail(db, NOT_FOUND)
        ELSE [db |-> db, err |-> OK, dto |-> toSharedDto(db[i]), draws |-> 0]

readSharedArtifact(db, p) ==
    LET i == findOneOrFail(db, [id |-> p.artifact_id, accessSecret |-> p.secret],
                           SharedReadFiltersOff)
    IN  IF i = 0 THEN Fail(db, NOT_FOUND)
        ELSE [db |-> db, err |-> OK, dto |-> toSharedDto(db[i]), draws |-> 0]

\* Mutant: a secret is generated only for an artifact that has none.
UpdateSecret_KeepsExisting(old, shared, draw) ==
    IF shared = True THEN (IF old = Undef THEN getSecret(draw) ELSE old)
    ELSE IF shared = False THEN Undef
    ELSE old

\* Mutant: shared = false is taken for an omitted field (if (shared) ...).
UpdateSecret_FalseIgnored(old, shared, draw) ==
    IF shared = True THEN getSecret(draw) ELSE old

\* updateArtifact, lines 146-150: the secret after the update.
UpdateSecret(old, shared, draw) ==
    IF shared = True THEN getSecret(draw)
    ELSE IF shared = False THEN Undef
    ELSE old

\* Mutant: the description is updated from the request's name.
updateArtifact_DescriptionFromName(db, p, draw) ==
    LET i == findOneOrFail(db, [id |-> p.artifact_id], {})
    IN  IF i = 0 THEN Fail(db, NOT_FOUND)
        ELSE LET a == db[i]
                 artifact ==
                     [a EXCEPT
                        !.metadata     = getUpdatedValue(p.metadata, a.metadata),
                        !.name         = getUpdatedValue(p.name, a.name),
                        !.description  = getUpdatedValue(p.name, a.description),
                        !.accessSecret = UpdateSecret(a.accessSecret, p.shared, draw)]
             IN  [db    |-> [db EXCEPT ![i] = artifact],
                  err   |-> OK,
                  dto   |-> toDto(artifact),
                  draws |-> IF p.shared = True THEN 1 ELSE 0]

updateArtifact(db, p, draw) ==
    LET i == findOneOrFail(db, [id |-> p.artifact_id], {})
    IN  IF i = 0 THEN Fail(db, NOT_FOUND)
        ELSE LET a == db[i]
                 artifact ==
                     [a EXCEPT
                        !.metadata     = getUpdatedValue(p.metadata, a.metadata),
                        !.name         = getUpdatedValue(p.name, a.name),
                        !.description  = getUpdatedValue(p.description, a.description),
                        !.accessSecret = UpdateSecret(a.accessSecret, p.shared, draw)]
             IN  [db    |-> [db EXCEPT ![i] = artifact],
                  err   |-> OK,
                  dto   |-> toDto(artifact),
                  draws |-> IF p.shared = True THEN 1 ELSE 0]

\* Mutant: the deletion marker is set but never flushed.
deleteArtifact_NoFlush(db, p) ==
    LET i == findOneOrFail(db, [id |-> p.artifact_id], {})
    IN  IF i = 0 THEN Fail(db, NOT_FOUND)
        ELSE [db    |-> db,
              err   |-> OK,
              dto   |-> [id |-> p.artifact_id, object |-> "artifact", deleted |-> TRUE],
              draws |-> 0]

deleteArtifact(db, p) ==
    LET i == findOneOrFail(db, [id |-> p.artifact_id], {})
    IN  IF i = 0 THEN Fail(db, NOT_FOUND)
        ELSE [db    |-> [db EXCEPT ![i] = delete(db[i])],
              err   |-> OK,
              dto   |-> [id |-> p.artifact_id, object |-> "artifact", deleted |-> TRUE],
              draws |-> 0]

\* The rows a listing sees, oldest first.
RECURSIVE VisibleRows(_, _)
VisibleRows(db, n) ==
    IF n = 0 THEN <<>>
    ELSE IF PassesFilters(db[n], {})
         THEN Append(VisibleRows(db, n - 1), db[n])
         ELSE VisibleRows(db, n - 1)

Reverse(s) == [i \in 1..Len(s) |-> s[Len(s) + 1 - i]]

\* listArtifacts: one page, of at most `limit` rows, in the order asked for.
listArtifacts(db, q) ==
    LET rows  == VisibleRows(db, Len(db))
        sorted == IF q.order = "asc" THEN rows ELSE Reverse(rows)
        page  == SubSeq(sorted, 1, IF Len(sorted) < q.limit THEN Len(sorted) ELSE q.limit)
    IN  [db    |-> db,
         err   |-> OK,
         dto   |-> [object |-> "list", data |-> [i \in 1..Len(page) |-> toDto(page[i])]],
         draws |-> 0]

(* ------------------------------ requests ------------------------------- *)

ReadRequests == [artifact_id : ArtifactIds]

SharedReadRequests == [artifact_id : ArtifactIds, secret : Secrets]

ListRequests == [limit : {1, 2}, order : {"asc", "desc"}]

CreateBody(thread_id, message_id, type, shared, fields) ==
    [thread_id   |-> thread_id,
     message_id  |-> message_id,
     type        |-> type,
     source_code |-> "print(1)",
     metadata    |-> fields[1],
     shared      |-> shared,
     name        |-> fields[2],
     description |-> fields[3]]

UpdateRequest(id, patch) ==
    [artifact_id |-> id,
     metadata    |-> patch[1],
     name        |-> patch[2],
     description |-> patch[3],
     shared      |-> patch[4]]

\* The bodies the behaviours are built from.  A body createArtifact accepts
\* comes with each value of `shared`, with no optional field or with all of
\* them; the bodies it rejects name a missing thread, a missing message, a
\* message of another thread (both ways), an unsupported type, or several of
\* these.
CreateBodies ==
    {CreateBody("thread_1", "msg_1", APP, shared, fields) :
        shared \in {Undef, True, False},
        fields \in {<<Undef, Undef, Undef>>, <<"{k:2}", "n2", "d2">>}}
    \cup
    {CreateBody(t[1], t[2], t[3], True, <<Undef, Undef, Undef>>) :
        t \in {<<"thread_0", "msg_1", APP>>,
               <<"thread_1", "msg_0", APP>>,
               <<"thread_2", "msg_1", APP>>,
               <<"thread_1", "msg_2", APP>>,
               <<"thread_1", "msg_1", UnsupportedType>>,
               <<"thread_0", "msg_0", UnsupportedType>>}}

\* The bodies the properties range over: those, every other combination of
\* thread, message and type, and bodies with some of the optional fields.
AllCreateBodies ==
    CreateBodies
    \cup
    {CreateBody(t[1], t[2], type, shared, <<"{k:1}", Undef, "d1">>) :
        t \in ThreadIds \X MessageIds,
        type \in {APP, UnsupportedType},
        shared \in {Undef, True}}

\* The updates the behaviours are built from: each sets nothing, the two
\* display strings, or the sharing state.
UpdatePatches ==
    {<<Undef, Undef, Undef, Undef>>,
     <<Undef, "n2", "d2", Undef>>,
     <<Undef, Undef, Undef, True>>,
     <<Undef, Undef, Undef, False>>}

UpdateRequests == {UpdateRequest(id, patch) : id \in ArtifactIds, patch \in UpdatePatches}

\* The updates the properties range over: those, and updates that set one
\* field, overwrite a value with another one, or set the fields and the
\* sharing state at once.
AllUpdateRequests ==
    {UpdateRequest(id, patch) :
        id \in ArtifactIds,
        patch \in UpdatePatches \cup
                  {<<"{k:1}", Undef, Undef, Undef>>,
                   <<Undef, "n1", Undef, Undef>>,
                   <<Undef, Undef, "d1", False>>,
                   <<"{k:1}", "n1", "d1", True>>}}

(* ------------------------------- actions ------------------------------- *)

Create ==
    \E body \in CreateBodies :
        LET r == createArtifact(artifacts, body, randomCalls + 1)
        IN  /\ Len(r.db) <= MaxArtifacts
            /\ randomCalls + r.draws <= MaxSecrets
            /\ artifacts' = r.db
            /\ randomCalls' = randomCalls + r.draws

Read ==
    \E p \in ReadRequests :
        /\ artifacts' = readArtifact(artifacts, p).db
        /\ UNCHANGED randomCalls

ReadShared ==
    \E p \in SharedReadRequests :
        /\ artifacts' = readSharedArtifact(artifacts, p).db
        /\ UNCHANGED randomCalls

Update ==
    \E p \in UpdateRequests :
        LET r == updateArtifact(artifacts, p, randomCalls + 1)
        IN  /\ randomCalls + r.draws <= MaxSecrets
            /\ artifacts' = r.db
            /\ randomCalls' = randomCalls + r.draws

List ==
    \E q \in ListRequests :
        /\ artifacts' = listArtifacts(artifacts, q).db
        /\ UNCHANGED randomCalls

Delete ==
    \E p \in ReadRequests :
        /\ artifacts' = deleteArtifact(artifacts, p).db
        /\ UNCHANGED randomCalls

Init ==
    /\ artifacts = <<>>
    /\ randomCalls = 0

Next ==
    \/ Create
    \/ Read
    \/ ReadShared
    \/ Update
    \/ List
    \/ Delete

Spec == Init /\ [][Next]_vars

(* ---------------------- vocabulary of the properties ------------------- *)

\* Every secret getSecret has produced up to the current state.
EverIssued == {getSecret(n) : n \in 1..randomCalls}

ReadRequest(id) == [artifact_id |-> id]
SharedReadRequest(id, secret) == [artifact_id |-> id, secret |-> secret]

\* The secret a share_url carries (its last part), Undef for the empty url.
SecretOf(url) == IF url = <<>> THEN Undef ELSE url[4]

\* Whether a listing's page holds the artifact with this id.
Lists(r, id) == \E k \in DOMAIN r.dto.data : r.dto.data[k].id = id

(* ------------------------------- C1 ------------------------------------ *)

\* C1, as stated: in every reachable state, for every artifact id and every
\* supplied secret, readSharedArtifact succeeds (with the shared DTO) if and
\* only if the secret equals the artifact's stored accessSecret, and fails
\* with NotFound otherwise.
C1_SharedReadIffSecretMatches ==
    \A p \in SharedReadRequests :
        LET r == readSharedArtifact(artifacts, p)
            i == p.artifact_id
        IN  /\ r.err = OK <=>
                   (i \in DOMAIN artifacts /\ artifacts[i].accessSecret = p.secret)
            /\ r.err = OK => r.dto = toSharedDto(artifacts[i])
            /\ r.err # OK => r.err = NOT_FOUND /\ r.dto = NoDto

\* C1, amended: readSharedArtifact succeeds, with the shared DTO of that
\* artifact, if and only if the artifact exists, is not soft-deleted and its
\* stored accessSecret equals the supplied secret; in every other case it
\* fails with the same NotFound error and no DTO.
C1_SharedReadIffLiveAndSecretMatches ==
    \A p \in SharedReadRequests :
        LET r == readSharedArtifact(artifacts, p)
            i == p.artifact_id
        IN  /\ r.err = OK <=>
                   /\ i \in DOMAIN artifacts
                   /\ artifacts[i].deletedAt = Undef
                   /\ artifacts[i].accessSecret = p.secret
            /\ r.err = OK =>
                   /\ r.dto.id = i
                   /\ r.dto.object = "artifact.shared"
                   /\ SecretOf(r.dto.share_url) = p.secret
                   /\ r.dto.source_code = artifacts[i].sourceCode
            /\ r.err # OK => r.err = NOT_FOUND /\ r.dto = NoDto
            /\ r.db = artifacts

\* A shared artifact that is readable by its link, next to a soft-deleted
\* artifact that still stores its secret.
C1_Witness ==
    \E i, j \in DOMAIN artifacts :
        /\ artifacts[i].deletedAt # Undef
        /\ artifacts[i].accessSecret # Undef
        /\ readSharedArtifact(artifacts,
               SharedReadRequest(j, artifacts[j].accessSecret)).err = OK

(* ------------------------------- C10 ----------------------------------- *)

\* C10: deleting a shared artifact revokes its link.  A successful
\* deleteArtifact on an artifact with an accessSecret leaves the secret
\* stored, and readSharedArtifact with that id and that secret then fails
\* with NotFound; it keeps failing for every soft-deleted artifact.
C10_DeleteRevokesShareLink ==
    /\ \A p \in ReadRequests :
           LET r == deleteArtifact(artifacts, p)
               i == p.artifact_id
           IN  (r.err = OK /\ artifacts[i].accessSecret # Undef) =>
                   /\ r.db[i].accessSecret = artifacts[i].accessSecret
                   /\ readSharedArtifact(r.db,
                          SharedReadRequest(i, r.db[i].accessSecret)).err = NOT_FOUND
    /\ \A i \in DOMAIN artifacts :
           (artifacts[i].deletedAt # Undef /\ artifacts[i].accessSecret # Undef) =>
               readSharedArtifact(artifacts,
                   SharedReadRequest(i, artifacts[i].accessSecret)).err = NOT_FOUND

\* A soft-deleted artifact whose secret is still stored.
C10_Witness ==
    \E i \in DOMAIN artifacts :
        /\ artifacts[i].deletedAt # Undef
        /\ artifacts[i].accessSecret \in EverIssued

(* ------------------------------- C2 ------------------------------------ *)

\* C2: every secret stored is one getSecret has issued, and every time
\* sharing is (re)enabled, by createArtifact or updateArtifact with shared
\* = true, the secret stored afterwards is none of the secrets issued so far,
\* hence none the artifact held before.  updateArtifact with shared = true
\* applied twice stores two different secrets, and after the second the
\* first link no longer authorizes readSharedArtifact.
C2_ResharingIssuesNewSecret ==
    /\ \A i \in DOMAIN artifacts :
           artifacts[i].accessSecret \in EverIssued \cup {Undef}
    /\ \A b \in AllCreateBodies :
           LET r == createArtifact(artifacts, b, randomCalls + 1)
           IN  (b.shared = True /\ r.err = OK) =>
                   r.db[Len(r.db)].accessSecret \notin EverIssued \cup {Undef}
    /\ \A p \in AllUpdateRequests :
           LET i  == p.artifact_id
               r1 == updateArtifact(artifacts, p, randomCalls + 1)
               r2 == updateArtifact(r1.db, p, randomCalls + r1.draws + 1)
               s0 == artifacts[i].accessSecret
               s1 == r1.db[i].accessSecret
               s2 == r2.db[i].accessSecret
           IN  (p.shared = True /\ r1.err = OK) =>
                   /\ s1 \notin EverIssued \cup {Undef}
                   /\ r2.err = OK
                   /\ s2 \notin EverIssued \cup {Undef, s1}
                   /\ readSharedArtifact(r1.db, SharedReadRequest(i, s1)).err = OK
                   /\ readSharedArtifact(r2.db, SharedReadRequest(i, s1)).err = NOT_FOUND
                   /\ readSharedArtifact(r2.db, SharedReadRequest(i, s2)).err = OK
                   /\ s0 # Undef =>
                          readSharedArtifact(r1.db, SharedReadRequest(i, s0)).err = NOT_FOUND

\* The only artifact holds the second secret issued: its sharing was enabled
\* twice.
C2_Witness ==
    /\ Len(artifacts) = 1
    /\ randomCalls = 2
    /\ artifacts[1].accessSecret = getSecret(2)
    /\ artifacts[1].deletedAt = Undef

(* ------------------------------- C3 ------------------------------------ *)

\* C3: after updateArtifact with shared = false the stored accessSecret is
\* absent, the share_url of the returned DTO and of later reads and listings
\* is empty and no secret, the old one included, authorizes
\* readSharedArtifact; an artifact without a secret stays so under every call
\* except updateArtifact with shared = true on it.
C3_UnsharingClearsSecret ==
    LET Unshared == {i \in DOMAIN artifacts : artifacts[i].accessSecret = Undef}
        StaysUnsharedBut(db, j) == \A i \in Unshared \ {j} : db[i].accessSecret = Undef
    IN  /\ \A p \in AllUpdateRequests :
               LET i == p.artifact_id
                   r == updateArtifact(artifacts, p, randomCalls + 1)
               IN  /\ (p.shared = False /\ r.err = OK) =>
                          /\ r.db[i].accessSecret = Undef
                          /\ r.dto.share_url = <<>>
                          /\ readArtifact(r.db, ReadRequest(i)).dto.share_url = <<>>
                          /\ \A s \in Secrets \cup ({artifacts[i].accessSecret} \ {Undef}) :
                                 readSharedArtifact(r.db, SharedReadRequest(i, s)).err
                                     = NOT_FOUND
                   /\ p.shared # True =>
                          /\ StaysUnsharedBut(r.db, 0)
                          /\ (r.err = OK /\ i \in Unshared) => r.dto.share_url = <<>>
                   /\ p.shared = True => StaysUnsharedBut(r.db, i)
        /\ \A b \in AllCreateBodies :
               StaysUnsharedBut(createArtifact(artifacts, b, randomCalls + 1).db, 0)
        /\ \A p \in ReadRequests :
               /\ StaysUnsharedBut(deleteArtifact(artifacts, p).db, 0)
               /\ LET r == readArtifact(artifacts, p)
                  IN  (r.err = OK /\ p.artifact_id \in Unshared) => r.dto.share_url = <<>>
        /\ \A p \in SharedReadRequests :
               p.artifact_id \in Unshared =>
                   readSharedArtifact(artifacts, p).err = NOT_FOUND
        /\ \A q \in ListRequests :
               LET r == listArtifacts(artifacts, q)
               IN  \A k \in DOMAIN r.dto.data :
                       r.dto.data[k].id \in Unshared => r.dto.data[k].share_url = <<>>

\* The only artifact was shared once and stores no secret any more.
C3_Witness ==
    /\ Len(artifacts) = 1
    /\ randomCalls = 1
    /\ artifacts[1].accessSecret = Undef
    /\ artifacts[1].deletedAt = Undef

(* ------------------------------- C4 ------------------------------------ *)

\* C4: for every existing thread and every existing message of another
\* thread, createArtifact fails with InvalidInput and persists nothing; every
\* persisted artifact's message belongs to its thread.
C4_MismatchRejected ==
    /\ \A b \in AllCreateBodies :
           LET r == createArtifact(artifacts, b, randomCalls + 1)
           IN  (/\ b.thread_id \in Threads
                /\ b.message_id \in Messages
                /\ MessageThread(b.message_id) # b.thread_id) =>
                   /\ r.err = INVALID_INPUT
                   /\ r.db = artifacts
                   /\ r.dto = NoDto
    /\ \A i \in DOMAIN artifacts :
           /\ artifacts[i].message \in Messages
           /\ MessageThread(artifacts[i].message) = artifacts[i].thread

\* Artifacts have been created, and a body whose message is of another
\* thread is being rejected.
C4_Witness ==
    /\ Len(artifacts) = MaxArtifacts
    /\ \E b \in CreateBodies :
           /\ b.thread_id \in Threads
           /\ b.message_id \in Messages
           /\ MessageThread(b.message_id) # b.thread_id
           /\ b.type = APP
           /\ createArtifact(artifacts, b, randomCalls + 1).err = INVALID_INPUT

(* ------------------------------- C5 ------------------------------------ *)

\* C5: a successful updateArtifact leaves every other artifact as it was,
\* and of the targeted one changes nothing but metadata, name, description
\* and accessSecret, each only when its argument was provided; with no
\* argument provided the collection is unchanged and the DTO returned is the
\* one readArtifact returns.
C5_UpdateFrame ==
    \A p \in AllUpdateRequests :
        LET i == p.artifact_id
            r == updateArtifact(artifacts, p, randomCalls + 1)
            a == artifacts[i]
            b == r.db[i]
        IN  r.err = OK =>
                /\ DOMAIN r.db = DOMAIN artifacts
                /\ \A j \in DOMAIN artifacts : j # i => r.db[j] = artifacts[j]
                /\ \A k \in DOMAIN a \ {"metadata", "name", "description", "accessSecret"} :
                       b[k] = a[k]
                /\ DOMAIN b = DOMAIN a
                /\ p.metadata = Undef => b.metadata = a.metadata
                /\ p.name = Undef => b.name = a.name
                /\ p.description = Undef => b.description = a.description
                /\ p.shared = Undef => b.accessSecret = a.accessSecret
                /\ (/\ p.metadata = Undef
                    /\ p.name = Undef
                    /\ p.description = Undef
                    /\ p.shared = Undef) =>
                       /\ r.db = artifacts
                       /\ r.draws = 0
                       /\ r.dto = readArtifact(artifacts, ReadRequest(i)).dto

\* Of two artifacts, one has had its display strings set by an update that
\* carried no metadata.
C5_Witness ==
    /\ Len(artifacts) = 2
    /\ \E i \in DOMAIN artifacts :
           /\ artifacts[i].name = "n2"
           /\ artifacts[i].description = "d2"
           /\ artifacts[i].metadata = Undef

(* ------------------------------- C6 ------------------------------------ *)

\* C6: a successful deleteArtifact sets the artifact's deletion marker and
\* changes nothing else; for a soft-deleted artifact readArtifact,
\* updateArtifact and deleteArtifact fail with NotFound and listArtifacts does
\* not return it, while no call erases or changes its row.
C6_SoftDelete ==
    /\ \A p \in ReadRequests :
           LET i == p.artifact_id
               r == deleteArtifact(artifacts, p)
           IN  r.err = OK =>
                   /\ DOMAIN r.db = DOMAIN artifacts
                   /\ \A j \in DOMAIN artifacts : j # i => r.db[j] = artifacts[j]
                   /\ r.db[i].deletedAt # Undef
                   /\ r.db[i] = [artifacts[i] EXCEPT !.deletedAt = r.db[i].deletedAt]
                   /\ readArtifact(r.db, p).err = NOT_FOUND
                   /\ deleteArtifact(r.db, p).err = NOT_FOUND
    /\ \A i \in DOMAIN artifacts :
           artifacts[i].deletedAt # Undef =>
               /\ readArtifact(artifacts, ReadRequest(i)).err = NOT_FOUND
               /\ LET r == deleteArtifact(artifacts, ReadRequest(i))
                  IN  r.err = NOT_FOUND /\ r.db = artifacts
               /\ \A p \in AllUpdateRequests :
                      LET r == updateArtifact(artifacts, p, randomCalls + 1)
                      IN  /\ p.artifact_id = i => r.err = NOT_FOUND
                          /\ r.db[i] = artifacts[i]
               /\ \A q \in ListRequests : ~Lists(listArtifacts(artifacts, q), i)
               /\ \A b \in AllCreateBodies :
                      createArtifact(artifacts, b, randomCalls + 1).db[i] = artifacts[i]
               /\ \A p \in ReadRequests :
                      deleteArtifact(artifacts, p).db[i] = artifacts[i]

\* Of two artifacts one is soft-deleted and the other is not.
C6_Witness ==
    \E i, j \in DOMAIN artifacts :
        /\ artifacts[i].deletedAt # Undef
        /\ artifacts[j].deletedAt = Undef

(* ------------------------------- C7 ------------------------------------ *)

\* C7: createArtifact stores an accessSecret if and only if shared is
\* exactly true.  Then share_url is /v1/artifacts/<id>/shared?secret=<secret>
\* with the new id and the stored secret, and that secret authorizes
\* readSharedArtifact; with shared omitted or false share_url is empty.
C7_CreateSharesIffTrue ==
    \A b \in AllCreateBodies :
        LET r == createArtifact(artifacts, b, randomCalls + 1)
            a == r.db[Len(r.db)]
        IN  r.err = OK =>
                /\ a.accessSecret # Undef <=> b.shared = True
                /\ r.dto.id = a.id
                /\ b.shared = True =>
                       /\ r.dto.share_url # <<>>
                       /\ r.dto.share_url =
                              <<"/v1/artifacts/", a.id, "/shared?secret=", a.accessSecret>>
                       /\ readSharedArtifact(r.db,
                              SharedReadRequest(r.dto.id, SecretOf(r.dto.share_url))).err = OK
                /\ b.shared # True => r.dto.share_url = <<>>

\* Two artifacts, one stored with a secret and one without, and a body with
\* shared = true that createArtifact accepts.
C7_Witness ==
    /\ \E i, j \in DOMAIN artifacts :
           /\ artifacts[i].accessSecret = Undef
           /\ artifacts[j].accessSecret # Undef
    /\ randomCalls = 1
    /\ \E b \in CreateBodies :
           b.shared = True /\ createArtifact(artifacts, b, randomCalls + 1).err = OK

(* ------------------------------- C8 ------------------------------------ *)

\* C8: createArtifact fails with NotFound if the thread or the message does
\* not exist; with both found it fails with InvalidInput if the type is not
\* APP; it persists an artifact, exactly one, only when thread and message
\* exist, the message belongs to the thread and the type is APP.
C8_CreateValidation ==
    \A b \in AllCreateBodies :
        LET r == createArtifact(artifacts, b, randomCalls + 1)
            found == b.thread_id \in Threads /\ b.message_id \in Messages
            valid == /\ found
                     /\ MessageThread(b.message_id) = b.thread_id
                     /\ b.type = APP
        IN  /\ ~found => r.err = NOT_FOUND
            /\ (found /\ b.type # APP) => r.err = INVALID_INPUT
            /\ b.type # APP => r.err # OK
            /\ r.err = OK <=> valid
            /\ r.db # artifacts <=> valid
            /\ valid =>
                   /\ Len(r.db) = Len(artifacts) + 1
                   /\ SubSeq(r.db, 1, Len(artifacts)) = artifacts
                   /\ r.db[Len(r.db)].type = APP
                   /\ r.db[Len(r.db)].thread = b.thread_id
                   /\ r.db[Len(r.db)].message = b.message_id

\* An artifact has been persisted, and a body with an unsupported type, for
\* a thread and its message, is being rejected.
C8_Witness ==
    /\ Len(artifacts) >= 1
    /\ \E b \in CreateBodies :
           /\ b.type # APP
           /\ b.thread_id \in Threads
           /\ b.message_id \in Messages
           /\ MessageThread(b.message_id) = b.thread_id
           /\ createArtifact(artifacts, b, randomCalls + 1).err = INVALID_INPUT

(* ------------------------------- C9 ------------------------------------ *)

\* C9: a call of createArtifact, readArtifact, readSharedArtifact,
\* updateArtifact or deleteArtifact that ends in an error, which is NotFound
\* or InvalidInput, leaves the stored artifacts exactly as they were.
C9_ErrorsChangeNothing ==
    LET Clean(r) ==
            r.err # OK =>
                /\ r.err \in {NOT_FOUND, INVALID_INPUT}
                /\ r.db = artifacts
                /\ r.draws = 0
    IN  /\ \A b \in AllCreateBodies : Clean(createArtifact(artifacts, b, randomCalls + 1))
        /\ \A p \in ReadRequests : Clean(readArtifact(artifacts, p))
        /\ \A p \in SharedReadRequests : Clean(readSharedArtifact(artifacts, p))
        /\ \A p \in AllUpdateRequests : Clean(updateArtifact(artifacts, p, randomCalls + 1))
        /\ \A p \in ReadRequests : Clean(deleteArtifact(artifacts, p))

\* With artifacts stored, one of them soft-deleted, calls of each kind are
\* failing.
C9_Witness ==
    /\ \E i \in DOMAIN artifacts : artifacts[i].deletedAt # Undef
    /\ \E b \in CreateBodies : createArtifact(artifacts, b, randomCalls + 1).err = INVALID_INPUT
    /\ \E p \in UpdateRequests : updateArtifact(artifacts, p, randomCalls + 1).err = NOT_FOUND
    /\ \E p \in ReadRequests : deleteArtifact(artifacts, p).err = NOT_FOUND

====
